---- MODULE Spec2Model ----
(***************************************************************************)
(* Heatmap generation notebook: make_heatmap_fig, write_one_heatmap, the   *)
(* animation parameter / build / render-loop cells.                        *)
(*                                                                         *)
(* Units.  Metric values, lookup entries and rendered pixels are whole     *)
(* numbers.  round_to may be fractional (Union[int, float]); it is carried *)
(* doubled (round_to2 = 2 * round_to), and so is the display bound         *)
(* (density_bound2 = 2 * density_bound).  An empty table cell / a          *)
(* transparent mask pixel is NaN.                                          *)
(***************************************************************************)
EXTENDS Integers, Sequences, FiniteSets, TLC

NaN == -1

Undefined == "undefined"

(***************************************************************************)
(* Bounds of the model                                                     *)
(***************************************************************************)
MaxFrames == 10001

\* label slices given to the boundary mask: two rows of MaskCols pixels
MaskCols == 3

\* maxima of the metric column 0..MaxMetric and doubled round_to
\* 1..MaxRoundTo2 (round_to 0.5, 1, 1.5, ...) given to the display bound
MaxMetric == 60

MaxRoundTo2 == 24

(***************************************************************************)
(* Files on disk.  A label volume is a sequence of z-slices, a slice a     *)
(* sequence of rows.  Python indexes from 0, sequences here from 1.        *)
(***************************************************************************)
VolA ==
  << << <<1, 1, 2>>, <<1, 1, 2>>, <<3, 3, 2>> >>,
     << <<0, 0, 0>>, <<0, 3, 3>>, <<0, 3, 3>> >>,
     << <<2, 2, 2>>, <<2, 2, 2>>, <<2, 2, 2>> >> >>

VolB ==
  << << <<0, 1, 1>>, <<2, 2, 1>> >> >>

AnnoFiles == {"annoA", "annoB"}

Volume(f) == IF f = "annoA" THEN VolA ELSE VolB

\* Row order is file order; the first row of every column is non-empty.
TabA ==
  << [id |-> 0, density |-> 5,  mean_intensity |-> 7],
     [id |-> 1, density |-> 10, mean_intensity |-> 40],
     [id |-> 2, density |-> 20, mean_intensity |-> NaN],
     [id |-> 3, density |-> 0,  mean_intensity |-> 30] >>

TabB ==
  << [id |-> 1, density |-> 10],
     [id |-> 2, density |-> 20],
     [id |-> 7, density |-> 1240] >>

CountFiles == {"tabA", "tabB"}

Table(f) == IF f = "tabA" THEN TabA ELSE TabB

ColNames == {"density", "mean_intensity"}

Multipliers == {1, 2}

\* doubled: 2.5 and 500
RoundTo2s == {5, 1000}

\* zs of the figure cell (np.arange) and of the animation cell (a range,
\* reversed by flip_z; the cell prints zs[2], so it holds three or more)
FigZLists == { <<0>>, <<0, 1>> }

AnimZLists == { <<0, 1, 2>>, <<2, 1, 0>> }

(***************************************************************************)
(* Arithmetic                                                              *)
(***************************************************************************)
\* Python 3 round(n / d) for n >= 0, d > 0: nearest integer, ties to even
Round(n, d) ==
  LET q == n \div d
      r == n % d
  IN  IF 2 * r < d THEN q
      ELSE IF 2 * r > d THEN q + 1
      ELSE IF q % 2 = 0 THEN q ELSE q + 1

\* x * m on a column cell; an empty cell stays empty
Times(x, m) == IF x = NaN THEN NaN ELSE x * m

RECURSIVE MaxFrom(_, _, _)
MaxFrom(s, i, cur) ==
  IF i > Len(s) THEN cur
  ELSE MaxFrom(s, i + 1,
               IF cur # NaN /\ s[i] # NaN /\ s[i] > cur THEN s[i] ELSE cur)

\* builtin max(iterable): keeps the running maximum, NaN never compares greater
PyMax(s) == MaxFrom(s, 2, s[1])

SetMax(S) == CHOOSE x \in S : \A y \in S : y <= x

(***************************************************************************)
(* Metric table                                                            *)
(***************************************************************************)
HasColumn(table, col) == \A i \in 1..Len(table) : col \in DOMAIN table[i]

Column(table, col) == [i \in 1..Len(table) |-> table[i][col]]

\* counts[col_name] *= col_multiplier
MultiplyColumn(table, col, mult) ==
  [i \in 1..Len(table) |->
     [f \in DOMAIN table[i] |->
        IF f = col THEN Times(table[i][f], mult) ELSE table[i][f]]]

\* np.max(anno)
IdMax(anno) ==
  SetMax(UNION { UNION { { anno[z][r][c] : c \in 1..Len(anno[z][r]) } :
                         r \in 1..Len(anno[z]) } : z \in 1..Len(anno) })

\* .set_index("id").reindex(new_index): the cell of row id i, empty if no row
Reindex(counts, col, i) ==
  IF \E j \in 1..Len(counts) : counts[j].id = i
  THEN counts[CHOOSE j \in 1..Len(counts) : counts[j].id = i][col]
  ELSE NaN

FillNa(x) == IF x = NaN THEN 0 ELSE x

\* counts_dict without line 126 / 486
CountsDictRootKept(anno, counts, col) ==
  [i \in 0..IdMax(anno) |-> FillNa(Reindex(counts, col, i))]

\* counts_dict made from the rows of the table, without the reindex
CountsDictFromRows(anno, counts, col) ==
  [i \in 0..SetMax({IdMax(anno)} \cup { counts[j].id : j \in 1..Len(counts) })
     |-> IF i = 0 THEN 0 ELSE FillNa(Reindex(counts, col, i))]

\* counts_dict: keys 0..id_max, entry 0 forced to 0
CountsDict(anno, counts, col) ==
  [i \in 0..IdMax(anno) |-> IF i = 0 THEN 0 ELSE FillNa(Reindex(counts, col, i))]

\* mapping_ar = zeros(k.max() + 1); mapping_ar[k] = v
MappingAr(cdict) ==
  [i \in 0..SetMax(DOMAIN cdict) |-> IF i \in DOMAIN cdict THEN cdict[i] ELSE 0]

Rows(slice) == Len(slice)

Cols(slice) == Len(slice[1])

Labels(slice) == { slice[r][c] : r \in 1..Rows(slice), c \in 1..Cols(slice) }

\* mapping_ar[anno_slice] raises IndexError for a label beyond the array
CanIndex(mapping_ar, slice) == Labels(slice) \subseteq DOMAIN mapping_ar

\* the substitution with rows and columns exchanged
ApplyMappingTransposed(mapping_ar, slice) ==
  [r \in 1..Cols(slice) |-> [c \in 1..Rows(slice) |-> mapping_ar[slice[c][r]]]]

\* new_slice = mapping_ar[anno_slice]
ApplyMapping(mapping_ar, slice) ==
  [r \in 1..Rows(slice) |-> [c \in 1..Cols(slice) |-> mapping_ar[slice[r][c]]]]

\* the bound with the remainder of the division in place of the quotient
DensityBound2Modulo(counts, col, round_to2) ==
  round_to2 * (Round((22 * PyMax(Column(counts, col))) % (10 * round_to2), 20)
               + 1)

\* density_bound, doubled
DensityBound2(counts, col, round_to2) ==
  round_to2 * (Round(22 * PyMax(Column(counts, col)), 10 * round_to2) + 1)

\* the upper legend tick round(density_bound)
UpperTick(bound2) == Round(bound2, 2)

(***************************************************************************)
(* Boundary mask                                                           *)
(***************************************************************************)
\* the pixel and its 4-neighbours inside the image
Cross(slice, r, c) ==
  { p \in (1..Rows(slice)) \X (1..Cols(slice)) :
      \/ p = <<r, c>>
      \/ p[1] = r /\ (p[2] = c - 1 \/ p[2] = c + 1)
      \/ p[2] = c /\ (p[1] = r - 1 \/ p[1] = r + 1) }

\* find_boundaries with mode="inner": the background id 0 is never marked
FindBoundariesInner(slice) ==
  [r \in 1..Rows(slice) |-> [c \in 1..Cols(slice) |->
     IF /\ \E p \in Cross(slice, r, c) : slice[p[1]][p[2]] # slice[r][c]
        /\ slice[r][c] # 0
     THEN 1 ELSE 0]]

\* find_boundaries(anno_slice, mode="thick").astype(float)
FindBoundaries(slice) ==
  [r \in 1..Rows(slice) |-> [c \in 1..Cols(slice) |->
     IF \E p \in Cross(slice, r, c) : slice[p[1]][p[2]] # slice[r][c]
     THEN 1 ELSE 0]]

\* dilation(boundaries)
Dilation(img) ==
  [r \in 1..Rows(img) |-> [c \in 1..Cols(img) |->
     IF \E p \in Cross(img, r, c) : img[p[1]][p[2]] = 1 THEN 1 ELSE 0]]

\* the mask with its zeros left in
MaskNaNSkipped(img) ==
  [r \in 1..Rows(img) |-> [c \in 1..Cols(img) |-> img[r][c]]]

\* boundaries[boundaries < 0.5] = np.nan
MaskNaN(img) ==
  [r \in 1..Rows(img) |-> [c \in 1..Cols(img) |->
     IF img[r][c] = 0 THEN NaN ELSE img[r][c]]]

Boundaries(slice) == MaskNaN(Dilation(FindBoundaries(slice)))

\* np.flip(img, 1)
FlipX(img) ==
  [r \in 1..Rows(img) |-> [c \in 1..Cols(img) |-> img[r][Cols(img) + 1 - c]]]

\* np.flip(img, 0)
FlipY(img) ==
  [r \in 1..Rows(img) |-> [c \in 1..Cols(img) |-> img[Rows(img) + 1 - r][c]]]

(***************************************************************************)
(* Frame file names                                                        *)
(***************************************************************************)
RECURSIVE Str(_)
\* str(i): decimal digits
Str(i) == IF i < 10 THEN <<i>> ELSE Append(Str(i \div 10), i % 10)

RECURSIVE ZFill(_, _)
\* s.zfill(width)
ZFill(s, width) == IF Len(s) >= width THEN s ELSE ZFill(<<0>> \o s, width)

\* the digits of "img_" + str(i).zfill(4)
FrameName(i) == ZFill(Str(i), 4)

(***************************************************************************)
(* make_heatmap_fig.  A call is a record: its arguments, the events it     *)
(* went through in code order, the exception it ended with ("none" when it *)
(* returned), and what it computed and drew.                               *)
(***************************************************************************)
Raise(st, err) == [st EXCEPT !.error = err]

Event(st, ev) == [st EXCEPT !.events = Append(@, ev)]

\* the layout check with <= for <
MhfLayoutCheckStrict(a) ==
  LET layout == IF a.fig_layout = <<>> THEN <<Len(a.zs), 1>> ELSE a.fig_layout
      st == [fn |-> "make_heatmap_fig", args |-> a, error |-> "none",
             events |-> <<"layout_check">>, fig_layout |-> layout,
             anno |-> <<>>, counts |-> <<>>, counts_dict |-> <<>>,
             density_bound2 |-> 0, panels |-> <<>>, cbar |-> <<>>,
             saved |-> ""]
  IN  IF layout[1] * layout[2] <= Len(a.zs) THEN Raise(st, "ValueError") ELSE st

\* lines 101-105: default layout, then the layout check
MhfLayoutCheck(a) ==
  LET layout == IF a.fig_layout = <<>> THEN <<Len(a.zs), 1>> ELSE a.fig_layout
      st == [fn |-> "make_heatmap_fig", args |-> a, error |-> "none",
             events |-> <<"layout_check">>, fig_layout |-> layout,
             anno |-> <<>>, counts |-> <<>>, counts_dict |-> <<>>,
             density_bound2 |-> 0, panels |-> <<>>, cbar |-> <<>>,
             saved |-> ""]
  IN  IF layout[1] * layout[2] < Len(a.zs) THEN Raise(st, "ValueError") ELSE st

\* lines 107-134: the two file reads, the correction, the lookup, the bound
MhfLoad(st, io) ==
  LET a  == st.args
      s1 == Event(st, "imread")
      s2 == Event([s1 EXCEPT !.anno = Volume(a.anno_file)], "read_csv")
      s3 == Event([s2 EXCEPT !.counts = Table(a.cell_counts)], "multiply")
      s4 == Event([s3 EXCEPT !.counts =
                     MultiplyColumn(Table(a.cell_counts), a.col_name,
                                    a.col_multiplier)], "counts_dict")
      s5 == Event([s4 EXCEPT !.counts_dict =
                     CountsDict(s4.anno, s4.counts, a.col_name)],
                  "density_bound")
  IN  IF io = "anno_unreadable" THEN Raise(s1, "FileError")
      ELSE IF io = "counts_unreadable" THEN Raise(s2, "FileError")
      ELSE IF ~HasColumn(Table(a.cell_counts), a.col_name)
           THEN Raise(s3, "KeyError")
      ELSE [s5 EXCEPT !.density_bound2 =
              DensityBound2(s4.counts, a.col_name, a.round_to2)]

\* one subplot: lines 145-160 and 180-192
Panel(st, i, alpha) ==
  LET z          == st.args.zs[i]
      anno_slice == st.anno[z + 1]
      mapping_ar == MappingAr(st.counts_dict)
  IN  [z |-> z, axis |-> i,
       boundaries |-> Boundaries(anno_slice),
       mapping_ar |-> mapping_ar,
       new_slice  |-> ApplyMapping(mapping_ar, anno_slice),
       vmin |-> 0, vmax2 |-> st.density_bound2,
       alpha |-> alpha]

\* lines 166-170 and 199-203
Colorbar(st, labelsize, fontsize) ==
  [ticks |-> <<0, UpperTick(st.density_bound2)>>, vmax2 |-> st.density_bound2,
   labelsize |-> labelsize, fontsize |-> fontsize]

\* lines 138-170: len(zs) == 1
MhfSinglePanel(st) ==
  LET s1 == Event(st, "subplots")
      s2 == Event(s1, "anno_slice")
      s3 == Event(Event(s2, "boundaries"), "mapping")
      s4 == Event(Event([s3 EXCEPT !.panels = <<Panel(st, 1, 40)>>], "imshow"),
                  "colorbar")
  IN  IF st.args.zs[1] + 1 > Len(st.anno) THEN Raise(s2, "IndexError")
      \* plt.subplots returns an array of axes unless the grid is 1 x 1
      ELSE IF st.fig_layout # <<1, 1>> THEN Raise(s3, "AttributeError")
      ELSE [s4 EXCEPT !.cbar = Colorbar(st, 18, 20)]

\* lines 173-203: len(zs) > 1
MhfMultiPanel(st) ==
  LET zs  == st.args.zs
      bad == { i \in 1..Len(zs) : zs[i] + 1 > Len(st.anno) }
      n   == IF bad = {} THEN Len(zs)
             ELSE (CHOOSE i \in bad : \A j \in bad : i <= j) - 1
      s1  == Event(st, "subplots")
      s2  == Event(Event(Event(Event(s1, "anno_slice"), "boundaries"),
                         "mapping"), "imshow")
      s3  == [s2 EXCEPT !.panels = [i \in 1..n |-> Panel(st, i, 50)]]
      s4  == Event(s3, "colorbar")
  IN  IF bad # {}
      THEN Raise(IF n = 0 THEN Event(s1, "anno_slice") ELSE s3, "IndexError")
      ELSE [s4 EXCEPT !.cbar =
              Colorbar(st, st.args.legend_numsize, st.args.legend_fontsize)]

MhfRender(st) ==
  IF Len(st.args.zs) = 1 THEN MhfSinglePanel(st) ELSE MhfMultiPanel(st)

\* lines 205-209
MhfSave(st) ==
  IF st.args.output_file # ""
  THEN Event([st EXCEPT !.saved = st.args.output_file], "savefig")
  ELSE st

\* make_heatmap_fig with the save ahead of the rendering
MakeHeatmapFigSaveFirst(a, io) ==
  LET s1 == MhfLayoutCheck(a)
      s2 == IF s1.error # "none" THEN s1 ELSE MhfLoad(s1, io)
  IN  IF s2.error # "none" THEN s2 ELSE MhfRender(MhfSave(s2))

\* lines 101-209
MakeHeatmapFig(a, io) ==
  LET s1 == MhfLayoutCheck(a)
      s2 == IF s1.error # "none" THEN s1 ELSE MhfLoad(s1, io)
      s3 == IF s2.error # "none" THEN s2 ELSE MhfRender(s2)
  IN  IF s3.error # "none" THEN s3 ELSE MhfSave(s3)

(***************************************************************************)
(* write_one_heatmap                                                       *)
(***************************************************************************)
\* lines 290-295 applied to one layer
Flip(img, flip_x, flip_y) ==
  LET fx == IF flip_x THEN FlipX(img) ELSE img
  IN  IF flip_y THEN FlipY(fx) ELSE fx

\* line 298: the colormap the boundary layer is drawn with
BorderCmapUsed(border_cmap, global_cmap) == global_cmap

\* a call that applies a correction to the table it was passed
ArgsAfterCallScaled(a_anno, a_counts, a_counts_dict) ==
  [anno |-> a_anno, counts |-> MultiplyColumn(a_counts, "density", 2),
   counts_dict |-> a_counts_dict]

\* lines 274-307: the arrays, the table and the dict are passed by reference
\* and only read; this is what the call leaves in them
ArgsAfterCall(a_anno, a_counts, a_counts_dict) ==
  [anno |-> a_anno, counts |-> a_counts, counts_dict |-> a_counts_dict]

\* lines 274-298; global_cmap is the notebook's custom_cmap
WohRender(a_anno, a_counts, a_counts_dict, w, global_cmap) ==
  LET after == ArgsAfterCall(a_anno, a_counts, a_counts_dict)
      st == [fn |-> "write_one_heatmap", args |-> w, error |-> "none",
             events |-> <<"density_bound">>,
             anno |-> after.anno, counts |-> after.counts,
             counts_dict |-> after.counts_dict,
             density_bound2 |-> 0, mapping_ar |-> <<>>, mapped |-> <<>>,
             new_slice |-> <<>>, boundaries |-> <<>>, vmin |-> 0, vmax2 |-> 0,
             alpha |-> 40, border_cmap_used |-> Undefined,
             cbar |-> <<>>, saved |-> <<>>]
      s1 == Event([st EXCEPT !.density_bound2 =
                     DensityBound2(a_counts, w.col_name, w.round_to2)],
                  "subplots")
      s2 == Event(s1, "anno_slice")
      anno_slice == a_anno[w.z + 1]
      mapping_ar == MappingAr(a_counts_dict)
      s3 == Event(Event(s2, "boundaries"), "mapping")
      s4 == Event([s3 EXCEPT
                     !.mapping_ar = mapping_ar,
                     !.mapped     = ApplyMapping(mapping_ar, anno_slice),
                     !.new_slice  = Flip(ApplyMapping(mapping_ar, anno_slice),
                                         w.flip_x, w.flip_y),
                     !.boundaries = Flip(Boundaries(anno_slice),
                                         w.flip_x, w.flip_y),
                     !.vmax2      = s1.density_bound2], "imshow")
      used == BorderCmapUsed(w.border_cmap, global_cmap)
  IN  IF ~HasColumn(a_counts, w.col_name) THEN Raise(st, "KeyError")
      ELSE IF w.z + 1 > Len(a_anno) THEN Raise(s2, "IndexError")
      ELSE IF ~CanIndex(mapping_ar, anno_slice) THEN Raise(s3, "IndexError")
      ELSE IF used = Undefined THEN Raise(s4, "NameError")
      ELSE Event([s4 EXCEPT !.border_cmap_used = used], "colorbar")

\* lines 300-307
WohSave(st) ==
  Event(Event([st EXCEPT
                 !.cbar = [ticks |-> <<0, UpperTick(st.density_bound2)>>,
                           vmax2 |-> st.density_bound2,
                           labelsize |-> 20, fontsize |-> 24],
                 !.saved = st.args.filename], "savefig"), "close")

WriteOneHeatmap(a_anno, a_counts, a_counts_dict, w, global_cmap) ==
  LET s1 == WohRender(a_anno, a_counts, a_counts_dict, w, global_cmap)
  IN  IF s1.error # "none" THEN s1 ELSE WohSave(s1)

(***************************************************************************)
(* The notebook kernel                                                     *)
(***************************************************************************)
VARIABLES
  defined,         \* names bound in the kernel namespace
  anno_file, cell_counts, zs, col_name, col_multiplier, round_to2,
  anno, counts, counts_dict, custom_cmap,
  pc, loop_i,      \* the running cell and the render loop's index
  written,         \* the files the running cell has written
  last,            \* the function call in progress, NoCall between calls
  built_current,   \* the build cell completed since the parameter cell ran
  frame_no, frame_name, prev_name,  \* enumeration of frame names
  probe_in, probe_out   \* one function applied to drawn inputs, outside the
                        \* kernel: what it is given and what it computes

params == <<anno_file, cell_counts, zs, col_name, col_multiplier, round_to2>>

built == <<anno, counts, counts_dict, custom_cmap>>

frames == <<frame_no, frame_name, prev_name>>

probes == <<probe_in, probe_out>>

kernel == <<defined, params, built, pc, loop_i, written, last, built_current>>

vars == <<kernel, frames, probes>>

NoProbe == [fn |-> "none"]

NoCall == [fn |-> "none", error |-> "none"]

NameError(cell) == [fn |-> cell, error |-> "NameError"]

ParamNames == {"anno_file", "cell_counts", "zs", "col_name", "col_multiplier",
               "round_to"}

BuiltNames == {"anno", "counts", "counts_dict", "custom_cmap"}

Cmaps == {"Greys_transparent", "Blues_transparent"}

Layouts == { <<>>, <<1, 1>>, <<2, 2>> }

LegendSizes == { <<20, 18>>, <<30, 12>> }

OutputFiles == {"", "fig.png"}

IoOutcomes == {"ok", "anno_unreadable", "counts_unreadable"}

Init ==
  /\ defined = {}
  /\ anno_file = Undefined /\ cell_counts = Undefined /\ zs = <<>>
  /\ col_name = Undefined /\ col_multiplier = 0 /\ round_to2 = 0
  /\ anno = <<>> /\ counts = <<>> /\ counts_dict = <<>>
  /\ custom_cmap = Undefined
  /\ pc = "idle" /\ loop_i = 0
  /\ written = {}
  /\ last = NoCall
  /\ built_current = FALSE
  /\ frame_no = 0 /\ frame_name = FrameName(0) /\ prev_name = <<>>
  /\ probe_in = NoProbe /\ probe_out = NoProbe

SetParameters(zlists) ==
  /\ pc = "idle"
  /\ anno_file' \in AnnoFiles
  /\ cell_counts' \in CountFiles
  /\ zs' \in zlists
  /\ col_name' \in ColNames
  /\ col_multiplier' \in Multipliers
  /\ round_to2' \in RoundTo2s
  /\ defined' = defined \cup ParamNames
  /\ built_current' = FALSE
  /\ UNCHANGED <<built, pc, loop_i, written, last, frames, probes>>

\* lines 323-372
FigureParameterCell == SetParameters(FigZLists)

\* lines 409-461
AnimationParameterCell == SetParameters(AnimZLists)

\* lines 381-393: the notebook's call of make_heatmap_fig
MakeHeatmapFigCell ==
  /\ pc = "idle"
  /\ IF ~(ParamNames \subseteq defined)
     THEN /\ last' = NameError("make_heatmap_fig_cell")
          /\ written' = {}
          /\ pc' = "raised"
     ELSE \E fig_layout \in Layouts, legend \in LegendSizes,
             output_file \in OutputFiles, io \in IoOutcomes :
            /\ last' = MakeHeatmapFig(
                 [anno_file |-> anno_file, cell_counts |-> cell_counts,
                  zs |-> zs, fig_layout |-> fig_layout,
                  col_name |-> col_name, col_multiplier |-> col_multiplier,
                  legend_fontsize |-> legend[1], legend_numsize |-> legend[2],
                  round_to2 |-> round_to2, output_file |-> output_file], io)
            /\ written' = IF last'.saved # "" THEN {last'.saved} ELSE {}
            /\ pc' = "fig_call"
  /\ UNCHANGED <<defined, params, built, loop_i, built_current, frames, probes>>

\* a build cell that keeps a lookup it already has
BuildCellCached ==
  /\ pc = "idle"
  /\ ParamNames \subseteq defined
  /\ HasColumn(Table(cell_counts), col_name)
  /\ anno' = Volume(anno_file)
  /\ counts' = MultiplyColumn(Table(cell_counts), col_name, col_multiplier)
  /\ counts_dict' = IF "counts_dict" \in defined THEN counts_dict
                    ELSE CountsDict(anno', counts', col_name)
  /\ custom_cmap' = "Greys_transparent"
  /\ defined' = defined \cup BuiltNames
  /\ built_current' = TRUE
  /\ UNCHANGED <<params, pc, loop_i, written, last, frames, probes>>

\* lines 470-490: the animation build cell; an exception leaves the names
\* assigned before it
BuildCell ==
  /\ pc = "idle"
  /\ IF ~(ParamNames \subseteq defined)
     THEN UNCHANGED <<defined, built, built_current>>
     ELSE IF ~HasColumn(Table(cell_counts), col_name)
     THEN /\ anno' = Volume(anno_file)
          /\ counts' = Table(cell_counts)
          /\ defined' = defined \cup {"anno", "counts"}
          /\ UNCHANGED <<counts_dict, custom_cmap, built_current>>
     ELSE /\ anno' = Volume(anno_file)
          /\ counts' = MultiplyColumn(Table(cell_counts), col_name,
                                      col_multiplier)
          /\ counts_dict' = CountsDict(anno', counts', col_name)
          /\ custom_cmap' = "Greys_transparent"
          /\ defined' = defined \cup BuiltNames
          /\ built_current' = TRUE
  /\ UNCHANGED <<params, pc, loop_i, written, last, frames, probes>>

\* lines 501-508: the render loop cell starts
RenderLoopCell ==
  /\ pc = "idle"
  /\ IF ParamNames \cup BuiltNames \subseteq defined
     THEN /\ pc' = "loop" /\ UNCHANGED last
     ELSE /\ pc' = "raised" /\ last' = NameError("render_loop_cell")
  /\ UNCHANGED <<defined, params, built, loop_i, written, built_current,
                 frames, probes>>

\* lines 508-522: one iteration, the call of write_one_heatmap; col_name is
\* not passed and takes the default of line 229
RenderLoopStep ==
  /\ pc = "loop"
  /\ last' = WriteOneHeatmap(anno, counts, counts_dict,
               [z |-> zs[loop_i + 1], border_cmap |-> custom_cmap,
                filename |-> FrameName(loop_i), col_name |-> "density",
                round_to2 |-> round_to2, flip_x |-> FALSE, flip_y |-> FALSE],
               custom_cmap)
  /\ written' = IF last'.error = "none"
                THEN written \cup {last'.saved} ELSE written
  /\ pc' = "loop_call"
  /\ anno' = last'.anno /\ counts' = last'.counts
  /\ counts_dict' = last'.counts_dict
  /\ UNCHANGED <<defined, params, custom_cmap, loop_i, built_current, frames, probes>>

\* line 307 and the loop header: the call returns or raises; the loop goes on
\* to the next z, or the cell ends
RenderLoopNext ==
  /\ pc = "loop_call"
  /\ last' = NoCall
  /\ IF last.error = "none" /\ loop_i + 1 < Len(zs)
     THEN loop_i' = loop_i + 1 /\ pc' = "loop" /\ UNCHANGED written
     ELSE loop_i' = 0 /\ pc' = "idle" /\ written' = {}
  /\ UNCHANGED <<defined, params, built, built_current, frames, probes>>

\* a call of write_one_heatmap with the caller's own colormap and flips
CallWriteOneHeatmap ==
  /\ pc = "idle"
  /\ ParamNames \cup BuiltNames \subseteq defined
  /\ \E border_cmap \in Cmaps, flip_x \in BOOLEAN, flip_y \in BOOLEAN :
       last' = WriteOneHeatmap(anno, counts, counts_dict,
                 [z |-> zs[1], border_cmap |-> border_cmap,
                  filename |-> FrameName(0), col_name |-> "density",
                  round_to2 |-> round_to2, flip_x |-> flip_x,
                  flip_y |-> flip_y],
                 custom_cmap)
  /\ written' = IF last'.error = "none" THEN {last'.saved} ELSE {}
  /\ pc' = "direct_call"
  /\ anno' = last'.anno /\ counts' = last'.counts
  /\ counts_dict' = last'.counts_dict
  /\ UNCHANGED <<defined, params, custom_cmap, loop_i, built_current, frames, probes>>

\* lines 209 and 307: the figure is shown or closed and the cell ends
CellEnds ==
  /\ pc \in {"fig_call", "direct_call", "raised"}
  /\ pc' = "idle"
  /\ last' = NoCall
  /\ written' = {}
  /\ UNCHANGED <<defined, params, built, loop_i, built_current, frames, probes>>

Next ==
  \/ FigureParameterCell
  \/ AnimationParameterCell
  \/ MakeHeatmapFigCell
  \/ BuildCell
  \/ RenderLoopCell
  \/ RenderLoopStep
  \/ RenderLoopNext
  \/ CallWriteOneHeatmap
  \/ CellEnds

Spec == Init /\ [][Next]_vars

(***************************************************************************)
(* The enumeration of frame names by the render loop, lines 508-509        *)
(***************************************************************************)
NextFrame ==
  /\ frame_no < MaxFrames
  /\ frame_no' = frame_no + 1
  /\ prev_name' = frame_name
  /\ frame_name' = FrameName(frame_no + 1)
  /\ UNCHANGED <<kernel, probes>>

NextFrames == NextFrame

SpecFrames == Init /\ [][NextFrames]_vars

(***************************************************************************)
(* The boundary mask and the flips of write_one_heatmap on drawn slices     *)
(***************************************************************************)
\* the region ids of the drawn slices
MaskLabels == {0, 1, 2}

MaskSlices == [1..2 -> [1..MaskCols -> MaskLabels]]

\* injective renamings of the region ids, into themselves and one more id
Renamings ==
  { f \in [MaskLabels -> MaskLabels \cup {3}] :
      \A a, b \in MaskLabels : f[a] = f[b] => a = b }

Relabel(slice, f) ==
  [r \in 1..Rows(slice) |-> [c \in 1..Cols(slice) |-> f[slice[r][c]]]]

InitMask ==
  /\ defined = {}
  /\ anno_file = Undefined /\ cell_counts = Undefined /\ zs = <<>>
  /\ col_name = Undefined /\ col_multiplier = 0 /\ round_to2 = 0
  /\ anno = <<>> /\ counts = <<>> /\ counts_dict = <<>>
  /\ custom_cmap = Undefined
  /\ pc = "idle" /\ loop_i = 0
  /\ written = {}
  /\ last = NoCall
  /\ built_current = FALSE
  /\ frame_no = 0 /\ frame_name = FrameName(0) /\ prev_name = <<>>
  /\ probe_in \in [fn : {"slice"}, slice : MaskSlices]
  /\ probe_out = NoProbe

\* lines 145-148, 180-183, 279-282 on the slice and on a relabeling of it
MaskOfRelabeled ==
  /\ probe_in.fn = "slice"
  /\ \E f \in Renamings :
       /\ probe_in' = [fn |-> "relabeled", slice |-> probe_in.slice,
                       renaming |-> f]
       /\ probe_out' = [fn |-> "boundaries",
                        mask |-> Boundaries(probe_in.slice),
                        mask_relabeled |->
                          Boundaries(Relabel(probe_in.slice, f))]
  /\ UNCHANGED <<kernel, frames>>

\* lines 274-307 on a volume holding the one slice, with the lookup of
\* lines 478-486 for it
RenderFlipped ==
  /\ probe_in.fn = "slice"
  /\ \E flip_x \in BOOLEAN, flip_y \in BOOLEAN :
       LET vol == <<probe_in.slice>>
       IN  /\ probe_in' = [fn |-> "flipped", slice |-> probe_in.slice,
                           flip_x |-> flip_x, flip_y |-> flip_y]
           /\ probe_out' = WriteOneHeatmap(vol, TabA,
                              CountsDict(vol, TabA, "density"),
                              [z |-> 0, border_cmap |-> "Greys_transparent",
                               filename |-> FrameName(0),
                               col_name |-> "density", round_to2 |-> 5,
                               flip_x |-> flip_x, flip_y |-> flip_y],
                              "Greys_transparent")
  /\ UNCHANGED <<kernel, frames>>

NextMask ==
  \/ MaskOfRelabeled
  \/ RenderFlipped

SpecMask == InitMask /\ [][NextMask]_vars

(***************************************************************************)
(* The display bound on drawn maxima                                       *)
(***************************************************************************)
\* a metric table whose column has maximum m
TableWithMax(m) == << [id |-> 1, density |-> 0], [id |-> 2, density |-> m] >>

InitBound ==
  /\ defined = {}
  /\ anno_file = Undefined /\ cell_counts = Undefined /\ zs = <<>>
  /\ col_name = Undefined /\ col_multiplier = 0 /\ round_to2 = 0
  /\ anno = <<>> /\ counts = <<>> /\ counts_dict = <<>>
  /\ custom_cmap = Undefined
  /\ pc = "idle" /\ loop_i = 0
  /\ written = {}
  /\ last = NoCall
  /\ built_current = FALSE
  /\ frame_no = 0 /\ frame_name = FrameName(0) /\ prev_name = <<>>
  /\ probe_in \in { p \in [fn : {"maxima"}, m1 : 0..MaxMetric,
                            m2 : 0..MaxMetric, round_to2 : 1..MaxRoundTo2] :
                       p.m1 <= p.m2 }
  /\ probe_out = NoProbe

\* lines 134 and 274 on each of the two tables
ComputeBounds ==
  /\ probe_in.fn = "maxima"
  /\ probe_out = NoProbe
  /\ probe_out' =
       [fn |-> "density_bound",
        bound_m1 |-> DensityBound2(TableWithMax(probe_in.m1), "density",
                                   probe_in.round_to2),
        bound_m2 |-> DensityBound2(TableWithMax(probe_in.m2), "density",
                                   probe_in.round_to2)]
  /\ UNCHANGED <<kernel, frames, probe_in>>

NextBound == ComputeBounds

SpecBound == InitBound /\ [][NextBound]_vars

(***************************************************************************)
(* Properties                                                              *)
(***************************************************************************)
Did(st, ev) == \E k \in DOMAIN st.events : st.events[k] = ev

AllLabels(vol) ==
  { vol[z][r][c] : <<z, r, c>> \in
      { t \in (1..Len(vol)) \X (1..3) \X (1..3) :
          t[2] <= Len(vol[t[1]]) /\ t[3] <= Len(vol[t[1]][t[2]]) } }

\* what the contract asks of entry i, read off the file's rows
ContractEntry(table, col, mult, i) ==
  IF i # 0 /\ \E j \in 1..Len(table) : table[j].id = i /\ table[j][col] # NaN
  THEN LET j == CHOOSE j \in 1..Len(table) : table[j].id = i
       IN  table[j][col] * mult
  ELSE 0

MeetsContract(lookup, vol, table, col, mult) ==
  /\ \E m \in AllLabels(vol) :
       /\ \A l \in AllLabels(vol) : l <= m
       /\ DOMAIN lookup = 0..m
  /\ Cardinality(DOMAIN lookup) = SetMax(AllLabels(vol)) + 1
  /\ \A i \in DOMAIN lookup : lookup[i] = ContractEntry(table, col, mult, i)

\* C1: the lookup built by make_heatmap_fig (counts_dict and every panel's
\* mapping_ar) and by the build cell (counts_dict, and the mapping_ar that
\* write_one_heatmap derives from it) has max(label id) + 1 entries indexed
\* 0..max; entry i is 0 for i = 0, for an id without a row and for an empty
\* cell, and table value * correction factor otherwise.
C1_LookupContract ==
  /\ (last.fn = "make_heatmap_fig" /\ Did(last, "density_bound")) =>
       /\ MeetsContract(last.counts_dict, Volume(last.args.anno_file),
                        Table(last.args.cell_counts), last.args.col_name,
                        last.args.col_multiplier)
       /\ \A i \in DOMAIN last.panels :
            MeetsContract(last.panels[i].mapping_ar,
                          Volume(last.args.anno_file),
                          Table(last.args.cell_counts), last.args.col_name,
                          last.args.col_multiplier)
  /\ built_current =>
       /\ MeetsContract(counts_dict, Volume(anno_file), Table(cell_counts),
                        col_name, col_multiplier)
       /\ (last.fn = "write_one_heatmap" /\ Did(last, "imshow")) =>
            MeetsContract(last.mapping_ar, Volume(anno_file),
                          Table(cell_counts), col_name, col_multiplier)

\* a table with a non-zero row for id 0 and an empty cell for id 2, factor 2
C1_Witness ==
  /\ built_current
  /\ last.fn = "make_heatmap_fig" /\ last.error = "none"
  /\ anno_file = "annoA" /\ cell_counts = "tabA"
  /\ col_name = "mean_intensity" /\ col_multiplier = 2
  /\ last.counts_dict = (0 :> 0 @@ 1 :> 80 @@ 2 :> 0 @@ 3 :> 60)
  /\ counts_dict = last.counts_dict

ScenarioSlice == << <<10, 10, 20>>, <<10, 10, 20>>, <<0, 0, 20>> >>

SameShape(a, b) ==
  /\ Len(a) = Len(b)
  /\ \A r \in 1..Len(a) : Len(a[r]) = Len(b[r])

IsLookupOf(img, lookup, slice) ==
  /\ SameShape(img, slice)
  /\ \A r \in 1..Len(slice) : \A c \in 1..Len(slice[r]) :
       img[r][c] = lookup[slice[r][c]]

\* C2: the rendered slice has the shape of anno[z] and holds
\* lookup[anno[z][r][c]] at every pixel (r, c); slice [[1,1,2],[1,1,2],[3,3,2]]
\* renders as [[10,10,20],[10,10,20],[0,0,20]] under factor 1, with and
\* without a row for id 3.
C2_RenderedSlice ==
  /\ last.fn = "make_heatmap_fig" =>
       \A i \in DOMAIN last.panels :
         /\ IsLookupOf(last.panels[i].new_slice, last.counts_dict,
                       Volume(last.args.anno_file)[last.panels[i].z + 1])
         /\ (/\ last.args.anno_file = "annoA" /\ last.panels[i].z = 0
             /\ last.args.col_name = "density"
             /\ last.args.col_multiplier = 1)
            => last.panels[i].new_slice = ScenarioSlice
  /\ (last.fn = "write_one_heatmap" /\ Did(last, "imshow")) =>
       /\ IsLookupOf(last.mapped, counts_dict, anno[last.args.z + 1])
       /\ (~last.args.flip_x /\ ~last.args.flip_y)
            => last.new_slice = last.mapped

\* the scenario with the row of id 3 missing
C2_Witness ==
  /\ last.fn = "make_heatmap_fig" /\ last.error = "none"
  /\ last.args.anno_file = "annoA" /\ last.args.cell_counts = "tabB"
  /\ last.args.col_multiplier = 1
  /\ last.panels[1].z = 0
  /\ last.panels[1].new_slice = ScenarioSlice

LayoutCells(a) ==
  IF a.fig_layout = <<>> THEN Len(a.zs) ELSE a.fig_layout[1] * a.fig_layout[2]

\* C3: make_heatmap_fig raises ValueError exactly when the layout has fewer
\* cells than zs has slices, and then nothing was read, drawn or written; an
\* omitted fig_layout becomes (len(zs), 1) and passes the check.
C3_LayoutCheckFirst ==
  last.fn = "make_heatmap_fig" =>
    /\ (last.error = "ValueError") <=>
         (last.args.fig_layout # <<>> /\ LayoutCells(last.args) < Len(last.args.zs))
    /\ last.error = "ValueError" =>
         /\ last.events = <<"layout_check">>
         /\ last.panels = <<>>
         /\ last.saved = "" /\ written = {}
    /\ last.args.fig_layout = <<>> =>
         /\ last.fig_layout = <<Len(last.args.zs), 1>>
         /\ last.error # "ValueError"
    /\ \A k \in DOMAIN last.events :
         last.events[k] = "layout_check" => k = 1

C3_Witness ==
  /\ last.fn = "make_heatmap_fig"
  /\ last.error = "ValueError"
  /\ last.args.fig_layout = <<1, 1>> /\ Len(last.args.zs) = 2

\* the maximum of the corrected metric column, read off the file's rows
CorrectedMax(table, col, mult) ==
  SetMax({ table[j][col] * mult :
             j \in { k \in 1..Len(table) : table[k][col] # NaN } })

ClaimedBound2(m, rt2) == rt2 * (Round(22 * m, 10 * rt2) + 1)

BoundAsClaimed(vmax2, tick, m, rt2) ==
  /\ vmax2 = ClaimedBound2(m, rt2)
  /\ 2 * tick = ClaimedBound2(m, rt2)
  /\ vmax2 % rt2 = 0
  /\ vmax2 > 2 * m
  /\ (rt2 = 1000 /\ m = 1240) => vmax2 = 4000

\* C4: vmax and the upper legend tick, in make_heatmap_fig and in
\* write_one_heatmap, equal round_to * (round(max * 1.1 / round_to) + 1) for
\* the maximum of the corrected metric column; the value is a multiple of
\* round_to above that maximum, 2000 for round_to 500 and maximum 1240.
C4_DisplayBound ==
  /\ (last.fn = "make_heatmap_fig" /\ Did(last, "colorbar")) =>
       LET m == CorrectedMax(Table(last.args.cell_counts), last.args.col_name,
                             last.args.col_multiplier)
       IN  /\ BoundAsClaimed(last.cbar.vmax2, last.cbar.ticks[2], m,
                             last.args.round_to2)
           /\ \A i \in DOMAIN last.panels :
                last.panels[i].vmax2 = last.cbar.vmax2
  /\ (last.fn = "write_one_heatmap" /\ Did(last, "savefig") /\ built_current) =>
       LET m == CorrectedMax(Table(cell_counts), col_name, col_multiplier)
       IN  /\ BoundAsClaimed(last.cbar.vmax2, last.cbar.ticks[2], m,
                             last.args.round_to2)
           /\ last.vmax2 = last.cbar.vmax2

\* the single-panel call on the first z of a multi-panel call, other arguments
\* equal
SinglePanelCall(st) ==
  MakeHeatmapFig([st.args EXCEPT !.zs = <<st.args.zs[1]>>, !.fig_layout = <<>>],
                 "ok")

\* C5: the single-panel and the multi-panel path of make_heatmap_fig render
\* the same slice under the same arguments with the same lookup, display
\* bound, boundary mask and styling (boundary translucency, legend_fontsize,
\* legend_numsize).
C5_SamePaths ==
  (last.fn = "make_heatmap_fig" /\ last.error = "none"
     /\ Len(last.args.zs) > 1) =>
    LET one == SinglePanelCall(last)
    IN  /\ one.error = "none"
        /\ one.counts_dict = last.counts_dict
        /\ one.density_bound2 = last.density_bound2
        /\ one.panels[1].new_slice = last.panels[1].new_slice
        /\ one.panels[1].boundaries = last.panels[1].boundaries
        /\ one.panels[1].vmax2 = last.panels[1].vmax2
        /\ one.cbar.ticks = last.cbar.ticks
        /\ one.panels[1].alpha = last.panels[1].alpha
        /\ one.cbar.fontsize = last.cbar.fontsize
        /\ one.cbar.labelsize = last.cbar.labelsize

\* the lookup and the volume belong to the parameters in force
InForce(a_anno, a_counts, a_counts_dict) ==
  /\ a_anno = Volume(anno_file)
  /\ HasColumn(Table(cell_counts), col_name)
  /\ a_counts = MultiplyColumn(Table(cell_counts), col_name, col_multiplier)
  /\ MeetsContract(a_counts_dict, Volume(anno_file), Table(cell_counts),
                   col_name, col_multiplier)

\* C6 as stated: in every order of the parameter cell, the build cell and the
\* render loop, each call of write_one_heatmap gets a counts_dict built from
\* the volume and the table (file, column, multiplier) in force.
C6_NeverStale ==
  pc = "loop_call" => InForce(last.anno, last.counts, last.counts_dict)

\* C6 amended: each call of the render loop gets the anno, counts and
\* counts_dict the kernel holds, and these belong to the parameters in force
\* when the build cell has completed since the parameter cell last ran.
C6_FreshAfterBuild ==
  pc = "loop_call" =>
    /\ last.anno = anno /\ last.counts = counts
    /\ last.counts_dict = counts_dict
    /\ built_current => InForce(last.anno, last.counts, last.counts_dict)

C6_Witness ==
  /\ pc = "loop_call" /\ built_current /\ last.error = "none"
  /\ anno_file = "annoA" /\ col_name = "mean_intensity"
  /\ loop_i = 2

MhfEvents ==
  <<"layout_check", "imread", "read_csv", "multiply", "counts_dict",
    "density_bound", "subplots", "anno_slice", "boundaries", "mapping",
    "imshow", "colorbar", "savefig">>

WohEvents ==
  <<"density_bound", "subplots", "anno_slice", "boundaries", "mapping",
    "imshow", "colorbar", "savefig", "close">>

\* C7: a call that raises writes no file: make_heatmap_fig and
\* write_one_heatmap save only after the layout check, the reads, the lookup
\* and the rendering of every requested slice went through.
C7_NoFileOnFailure ==
  /\ last.fn = "make_heatmap_fig" =>
       /\ last.error # "none" =>
            /\ last.saved = "" /\ written = {}
            /\ ~Did(last, "savefig")
       /\ Did(last, "savefig") =>
            /\ last.error = "none"
            /\ last.events = MhfEvents
            /\ Len(last.panels) = Len(last.args.zs)
            /\ written = {last.args.output_file}
       /\ (last.error = "none" /\ last.args.output_file # "") =>
            Did(last, "savefig")
  /\ last.fn = "write_one_heatmap" =>
       /\ last.error # "none" =>
            /\ last.saved = <<>>
            /\ last.args.filename \notin written
            /\ ~Did(last, "savefig")
       /\ Did(last, "savefig") =>
            /\ last.error = "none"
            /\ last.events = WohEvents
            /\ last.args.filename \in written
       /\ last.error = "none" => Did(last, "savefig")

\* the second of two panels fails after the first was drawn
C7_Witness ==
  /\ last.fn = "make_heatmap_fig" /\ last.error = "IndexError"
  /\ last.args.output_file = "fig.png"
  /\ Len(last.panels) = 1
  /\ written = {}

\* C8: the boundary layer of write_one_heatmap is drawn with the border_cmap
\* argument, so the output of a call depends on its arguments only.
C8_BorderCmapArgument ==
  (last.fn = "write_one_heatmap" /\ Did(last, "colorbar")) =>
    last.border_cmap_used = last.args.border_cmap

LexLess(a, b) ==
  \/ /\ Len(a) < Len(b)
     /\ \A k \in 1..Len(a) : a[k] = b[k]
  \/ \E k \in 1..Len(a) :
       /\ k <= Len(b)
       /\ a[k] < b[k]
       /\ \A j \in 1..(k - 1) : a[j] = b[j]

\* C9: frame i is named img_<i> with <i> padded to 4 digits for every i, so
\* all names have one length and their lexicographic order is frame order.
C9_FixedWidthNames ==
  /\ Len(frame_name) = 4
  /\ frame_no > 0 =>
       /\ Len(prev_name) = Len(frame_name)
       /\ LexLess(prev_name, frame_name)

C11_RelabelingInvariant ==
  probe_out.fn = "boundaries" => probe_out.mask_relabeled = probe_out.mask

\* ids 0 and 1 exchanged on a slice whose mask has marked and unmarked pixels
C11_Witness ==
  /\ probe_out.fn = "boundaries"
  /\ probe_in.slice = << <<0, 0, 1>>, <<0, 0, 0>> >>
  /\ probe_in.renaming[0] = 1 /\ probe_in.renaming[1] = 0
  /\ probe_out.mask = << <<1, 1, 1>>, <<NaN, 1, 1>> >>
  /\ probe_out.mask_relabeled = probe_out.mask

Pixels(slice) == (1..Len(slice)) \X (1..Len(slice[1]))

\* p and q are the same pixel or 4-neighbours
Near(p, q) ==
  (IF p[1] > q[1] THEN p[1] - q[1] ELSE q[1] - p[1])
    + (IF p[2] > q[2] THEN p[2] - q[2] ELSE q[2] - p[2]) <= 1

\* the neighbourhood of q holds two different region ids
AtTransition(slice, q) ==
  \E a, b \in Pixels(slice) :
    /\ Near(a, q) /\ Near(b, q)
    /\ slice[a[1]][a[2]] # slice[b[1]][b[2]]

Drawable(slice, p) ==
  \E q \in Pixels(slice) : Near(p, q) /\ AtTransition(slice, q)

\* the pixel of the slice shown at (r, c) under the flips
SourcePixel(slice, r, c, flip_x, flip_y) ==
  << IF flip_y THEN Len(slice) + 1 - r ELSE r,
     IF flip_x THEN Len(slice[1]) + 1 - c ELSE c >>

\* C12: the boundary mask has the shape of the label slice; a pixel is 1
\* exactly when it lies within one dilation step of a pixel whose
\* neighbourhood holds two different region ids, and NaN (never 0) otherwise;
\* a slice of one region id gives an all-NaN mask; flip_x / flip_y move the
\* mask and the rendered slice together.
C12_MaskAndFlips ==
  (probe_out.fn = "write_one_heatmap" /\ probe_out.error = "none") =>
    LET slice == probe_in.slice
        mask  == probe_out.boundaries
    IN  /\ SameShape(mask, slice)
        /\ SameShape(probe_out.new_slice, slice)
        /\ \A p \in Pixels(slice) :
             LET src == SourcePixel(slice, p[1], p[2], probe_in.flip_x,
                                    probe_in.flip_y)
             IN  /\ mask[p[1]][p[2]] =
                      IF Drawable(slice, src) THEN 1 ELSE NaN
                 /\ probe_out.new_slice[p[1]][p[2]] =
                      probe_out.counts_dict[slice[src[1]][src[2]]]
        /\ Cardinality(Labels(slice)) = 1 =>
             \A p \in Pixels(slice) : mask[p[1]][p[2]] = NaN

\* both flips on a slice whose mask and metric layer are not symmetric
C12_Witness ==
  /\ probe_out.fn = "write_one_heatmap" /\ probe_out.error = "none"
  /\ probe_in.slice = << <<0, 0, 1>>, <<0, 0, 0>> >>
  /\ probe_in.flip_x /\ probe_in.flip_y
  /\ probe_out.boundaries = << <<1, 1, NaN>>, <<1, 1, 1>> >>
  /\ probe_out.new_slice = << <<0, 0, 0>>, <<10, 0, 0>> >>

HasExtraRows(table, vol) ==
  \E j \in 1..Len(table) : table[j].id > SetMax(AllLabels(vol))

\* the table without its rows beyond the largest label id
WithoutExtraRows(table, vol) ==
  SelectSeq(table, LAMBDA row : row.id <= SetMax(AllLabels(vol)))

\* the lookup the contract asks for when the rows beyond the largest id are
\* absent
LookupWithoutExtraRows(table, vol, col, mult) ==
  [i \in 0..SetMax(AllLabels(vol)) |->
     ContractEntry(WithoutExtraRows(table, vol), col, mult, i)]

\* C13: rows of the metric table whose id is above the largest label id of
\* the volume raise no error and add no entry to the lookup; the lookup and
\* every rendered slice are those of the table without these rows.
C13_ExtraRowsIgnored ==
  /\ (/\ last.fn = "make_heatmap_fig"
      /\ HasExtraRows(Table(last.args.cell_counts),
                      Volume(last.args.anno_file))) =>
       LET vol    == Volume(last.args.anno_file)
           table  == Table(last.args.cell_counts)
           lookup == LookupWithoutExtraRows(table, vol, last.args.col_name,
                                            last.args.col_multiplier)
       IN  /\ last.error = "KeyError" => ~HasColumn(table, last.args.col_name)
           /\ last.error = "IndexError" =>
                \E i \in DOMAIN last.args.zs : last.args.zs[i] + 1 > Len(vol)
           /\ Did(last, "density_bound") => last.counts_dict = lookup
           /\ \A i \in DOMAIN last.panels :
                /\ last.panels[i].mapping_ar = lookup
                /\ IsLookupOf(last.panels[i].new_slice, lookup,
                              vol[last.panels[i].z + 1])
  /\ (built_current /\ HasExtraRows(Table(cell_counts), Volume(anno_file))) =>
       LET lookup == LookupWithoutExtraRows(Table(cell_counts),
                       Volume(anno_file), col_name, col_multiplier)
       IN  /\ counts_dict = lookup
           /\ last.fn = "write_one_heatmap" =>
                /\ last.error = "IndexError" => last.args.z + 1 > Len(anno)
                /\ last.error \in {"none", "IndexError"}
                /\ Did(last, "imshow") =>
                     /\ last.mapping_ar = lookup
                     /\ IsLookupOf(last.mapped, lookup, anno[last.args.z + 1])

\* a table with a row for id 7 on a volume whose ids end at 3, two panels
C13_Witness ==
  /\ last.fn = "make_heatmap_fig" /\ last.error = "none"
  /\ last.args.anno_file = "annoA" /\ last.args.cell_counts = "tabB"
  /\ last.args.col_multiplier = 2
  /\ Len(last.panels) = 2
  /\ built_current
  /\ counts_dict = (0 :> 0 @@ 1 :> 20 @@ 2 :> 40 @@ 3 :> 0)
  /\ last.counts_dict = counts_dict

\* C14: for a fixed positive round_to and maxima m1 <= m2, the display bound
\* round_to * (round(m * 1.1 / round_to) + 1), rounding ties to even, of m1
\* is at most that of m2.
C14_BoundMonotonic ==
  (probe_out.fn = "density_bound" /\ probe_in.m1 <= probe_in.m2) =>
    probe_out.bound_m1 <= probe_out.bound_m2

\* round_to 1: 15 * 1.1 = 16.5 is a tie and rounds down to 16, 16 * 1.1 to 18
C14_Witness ==
  /\ probe_out.fn = "density_bound"
  /\ probe_in.m1 = 15 /\ probe_in.m2 = 16 /\ probe_in.round_to2 = 2
  /\ probe_out.bound_m1 = 34 /\ probe_out.bound_m2 = 38

\* every value of the image lies in [0, bound]; the bound is doubled
WithinBound(img, bound2) ==
  \A r \in 1..Len(img) : \A c \in 1..Len(img[r]) :
    0 <= img[r][c] /\ 2 * img[r][c] <= bound2

\* C15: in make_heatmap_fig and in the animation loop's calls of
\* write_one_heatmap, with the lookup built for the parameters in force, every
\* value of every rendered slice lies in [0, vmax], whichever col_name the
\* notebook is configured with.
C15_WithinColourScale ==
  /\ last.fn = "make_heatmap_fig" =>
       \A i \in DOMAIN last.panels :
         WithinBound(last.panels[i].new_slice, last.panels[i].vmax2)
  /\ (pc = "loop_call" /\ built_current /\ Did(last, "imshow")) =>
       WithinBound(last.new_slice, last.vmax2)

\* C16: for non-empty zs inside the volume and a layout with at least len(zs)
\* cells, make_heatmap_fig (files readable, column present) passes the layout
\* check and renders every z exactly once without raising, the i-th z into
\* the i-th panel, with one colorbar whose range [0, bound] is the range of
\* every panel; a single z with a layout of several cells included.
C16_EveryZRenderedOnce ==
  (/\ last.fn = "make_heatmap_fig"
   /\ Len(last.args.zs) >= 1
   /\ LayoutCells(last.args) >= Len(last.args.zs)
   /\ last.error \notin {"FileError", "KeyError"}
   /\ \A i \in DOMAIN last.args.zs :
        last.args.zs[i] + 1 <= Len(Volume(last.args.anno_file))) =>
    /\ last.error = "none"
    /\ Len(last.panels) = Len(last.args.zs)
    /\ \A i \in DOMAIN last.panels :
         /\ last.panels[i].z = last.args.zs[i]
         /\ last.panels[i].axis = i
         /\ last.panels[i].vmin = 0
         /\ last.panels[i].vmax2 = last.cbar.vmax2
    /\ last.cbar.vmax2 = last.density_bound2

====
